---------------------------- MODULE Spec2Model ----------------------------
(***************************************************************************)
(* Model of ta_sessions/5_aiyagari.ipynb: the helper functions of the      *)
(* Aiyagari notebook (rouwenhorst, factor_prices, aggregate_kl,            *)
(* cash_in_hand, solve_pfi) and the equilibrium algorithm the notebook     *)
(* describes.                                                              *)
(*                                                                         *)
(* Numbers.  The notebook computes in binary floating point.  The model    *)
(* computes in exact rational arithmetic: a rational is a pair <<n, d>>    *)
(* with d > 0, a matrix of rationals is a matrix of integer numerators     *)
(* over one common denominator.  Properties are therefore stated exactly   *)
(* where the notebook would satisfy them up to rounding.                   *)
(*                                                                         *)
(* Control.  A behaviour is one call made from the idle session: fn names   *)
(* the function called, pc its position, args its arguments, ret its       *)
(* outcome (a return value or the exception it raised).  The functions     *)
(* keep no state between calls, so one call per behaviour loses nothing.   *)
(***************************************************************************)
EXTENDS Integers, Sequences, FiniteSets

VARIABLES
    param,   \* the notebook's global parameter dictionary
    fn,      \* function running / last finished ("none" before any call)
    pc,      \* "idle", a position inside fn, or "done"
    args,    \* arguments of the current call
    stack,   \* compute_P: the N of every active compute_P frame, outermost first
    P,       \* compute_P: the matrix most recently returned by a frame
    calls,   \* compute_P: number of recursive calls made so far
    ret,     \* outcome of the call
    eq       \* state of the equilibrium iteration

vars == <<param, fn, pc, args, stack, P, calls, ret, eq>>

-----------------------------------------------------------------------------
(* Bounds of the model *)

MaxN == 4            \* largest state count N passed to rouwenhorst
RecursionLimit == 8  \* depth at which the interpreter raises RecursionError
MaxRoot == 2         \* K and L are (signed) alpha-denominator powers of 0..MaxRoot
MaxPts == 2          \* grid points passed to aggregate_kl
MaxVal == 2          \* largest k, l, r, w passed to cash_in_hand / aggregate_kl
MaxK == 20           \* largest aggregate capital on the equilibrium grid
EqTol == 5           \* tolerance of the equilibrium loop ("close to zero")

-----------------------------------------------------------------------------
(* Exact arithmetic helpers *)

Abs(x) == IF x < 0 THEN 0 - x ELSE x

Sign(x) == IF x < 0 THEN 0 - 1 ELSE IF x = 0 THEN 0 ELSE 1

RECURSIVE SumSeq(_)
SumSeq(s) == IF s = <<>> THEN 0 ELSE Head(s) + SumSeq(Tail(s))

RatEq(a, b) == a[1] * b[2] = b[1] * a[2]

\* the d-th root of a perfect d-th power x >= 0
IntRoot(x, d) == CHOOSE y \in 0..x : y ^ d = x

-----------------------------------------------------------------------------
(* rouwenhorst and its inner function compute_P *)

NoMatrix == [num |-> <<>>, den |-> 1]

\* np.zeros((N, N))
Zeros(n) == [i \in 1..n |-> [j \in 1..n |-> 0]]

\* M[r0:r0+m, c0:c0+m] += Q   for an m x m matrix Q (offsets counted from 0)
AddBlock(M, Q, r0, c0) ==
    LET n == Len(M)
        m == Len(Q)
    IN  [i \in 1..n |-> [j \in 1..n |->
            M[i][j] + (IF (i - r0) \in 1..m /\ (j - c0) \in 1..m
                       THEN Q[i - r0][j - c0] ELSE 0)]]

\* A = zeros; A[:N-1, :N-1] += Q; A[1:N, 1:N] += Q
EmbedA(Q, n) == AddBlock(AddBlock(Zeros(n), Q, 0, 0), Q, 1, 1)

\* a slip in the slices of B: both copies of Q land in the top-right block
EmbedB_sameBlock(Q, n) == AddBlock(AddBlock(Zeros(n), Q, 0, 1), Q, 0, 1)

\* B = zeros; B[:N-1, 1:N] += Q; B[1:N, :N-1] += Q
EmbedB(Q, n) == AddBlock(AddBlock(Zeros(n), Q, 0, 1), Q, 1, 0)

\* p = (1 + rho) / 2 for rho = <<rn, rd>>
pOf(rho) == <<rho[2] + rho[1], 2 * rho[2]>>

\* P = np.array([[p, 1-p], [1-p, p]])
BaseP(p) == [num |-> << <<p[1], p[2] - p[1]>>, <<p[2] - p[1], p[1]>> >>,
             den |-> p[2]]

\* P = p * A + (1 - p) * B, for Q = Qm.num / Qm.den
Mix(p, Qm, n) ==
    LET A == EmbedA(Qm.num, n)
        B == EmbedB(Qm.num, n)
    IN  [num |-> [i \in 1..n |-> [j \in 1..n |->
                    p[1] * A[i][j] + (p[2] - p[1]) * B[i][j]]],
         den |-> Qm.den * p[2]]

\* a slip in the slice: every row is halved, the first and the last too
HalveInterior_allRows(M) == [num |-> M.num, den |-> 2 * M.den]

\* P[1:-1, :] /= 2 : over the doubled common denominator the interior rows
\* keep their numerators and the first and last rows double theirs
HalveInterior(M) ==
    LET n == Len(M.num)
    IN  [num |-> [i \in 1..n |-> [j \in 1..n |->
                    IF i \in 2..(n - 1) THEN M.num[i][j] ELSE 2 * M.num[i][j]]],
         den |-> 2 * M.den]

\* the else branch of compute_P once Q = compute_P(p, N-1) is known
CombineP(p, Qm, n) == HalveInterior(Mix(p, Qm, n))

\* f = np.sqrt(N-1) * (sigma / np.sqrt(1-rho**2)); s = np.linspace(-f, f, N) + mu
\* The grid is recorded by the square of f, the sign of f and mu.  With
\* 1 - rho^2 = 0 the numpy division yields inf (nan for sigma = 0), with
\* 1 - rho^2 < 0 np.sqrt yields nan; numpy warns and carries on.
GridOf(N, mu, rho, sigma) ==
    LET disc == rho[2] * rho[2] - rho[1] * rho[1]
    IN  IF disc > 0
        THEN [kind |-> "finite", mu |-> mu, sign |-> Sign(sigma),
              fsq |-> <<(N - 1) * sigma * sigma * rho[2] * rho[2], disc>>]
        ELSE IF disc = 0 /\ sigma # 0
        THEN [kind |-> "inf", mu |-> mu, sign |-> Sign(sigma), fsq |-> <<0, 1>>]
        ELSE [kind |-> "nan", mu |-> mu, sign |-> 0, fsq |-> <<0, 1>>]

NoRet == [kind |-> "none"]
NoEq == [phase |-> "off", K |-> 0, priced |-> 0 - 1, solved |-> 0 - 1, Kstar |-> 0 - 1]

Ns == (0 - 1)..MaxN
Rhos == {<<n, 2>> : n \in (0 - 3)..3}
Sigmas == (0 - 1)..1
Mus == 0..1

Top == stack[Len(stack)]
Pop == SubSeq(stack, 1, Len(stack) - 1)

\* a call starts from the idle session
CanCall == pc = "idle"

\* rouwenhorst(N, mu, rho, sigma) is called: p is computed and compute_P(p, N) entered
RwCall(N, mu, rho, sigma) ==
    /\ CanCall
    /\ fn' = "rouwenhorst"
    /\ args' = [N |-> N, mu |-> mu, rho |-> rho, sigma |-> sigma]
    /\ stack' = <<N>>
    /\ pc' = "call"
    /\ UNCHANGED <<param, P, calls, ret, eq>>

\* compute_P with N # 2: the else branch calls compute_P(p, N-1)
RwRecurse ==
    /\ fn = "rouwenhorst" /\ pc = "call"
    /\ Top # 2
    /\ Len(stack) < RecursionLimit
    /\ stack' = Append(stack, Top - 1)
    /\ calls' = calls + 1
    /\ UNCHANGED <<param, fn, pc, args, P, ret, eq>>

\* the recursion exhausts the interpreter's stack
RwRecursionError ==
    /\ fn = "rouwenhorst" /\ pc = "call"
    /\ Top # 2
    /\ Len(stack) >= RecursionLimit
    /\ ret' = [kind |-> "raise", exc |-> "RecursionError"]
    /\ stack' = <<>>
    /\ pc' = "done"
    /\ UNCHANGED <<param, fn, args, P, calls, eq>>

\* compute_P with N = 2 returns the 2 x 2 matrix
RwBase ==
    /\ fn = "rouwenhorst" /\ pc = "call"
    /\ Top = 2
    /\ P' = BaseP(pOf(args.rho))
    /\ stack' = Pop
    /\ pc' = "ret"
    /\ UNCHANGED <<param, fn, args, calls, ret, eq>>

\* a frame with N > 2 receives Q and returns its P
RwCombine ==
    /\ fn = "rouwenhorst" /\ pc = "ret"
    /\ stack # <<>>
    /\ P' = CombineP(pOf(args.rho), P, Top)
    /\ stack' = Pop
    /\ UNCHANGED <<param, fn, pc, args, calls, ret, eq>>

\* the outermost compute_P has returned: build the grid and return (s, P)
RwReturn ==
    /\ fn = "rouwenhorst" /\ pc = "ret"
    /\ stack = <<>>
    /\ ret' = [kind |-> "return",
               s |-> GridOf(args.N, args.mu, args.rho, args.sigma),
               P |-> P]
    /\ pc' = "done"
    /\ UNCHANGED <<param, fn, args, stack, P, calls, eq>>

Rouwenhorst ==
    \/ \E N \in Ns, mu \in Mus, rho \in Rhos, sigma \in Sigmas : RwCall(N, mu, rho, sigma)
    \/ RwRecurse
    \/ RwRecursionError
    \/ RwBase
    \/ RwCombine
    \/ RwReturn

-----------------------------------------------------------------------------
(* Properties of rouwenhorst *)

RhoInside(rho) == Abs(rho[1]) < rho[2]

RowStochastic(M) ==
    \A i \in 1..Len(M.num) :
        /\ SumSeq(M.num[i]) = M.den
        /\ \A j \in 1..Len(M.num[i]) : 0 <= M.num[i][j] /\ M.num[i][j] <= M.den

Square(M, n) == Len(M.num) = n /\ \A i \in 1..n : Len(M.num[i]) = n

\* the N of the compute_P frame whose result P currently holds
Level == IF stack = <<>> THEN args.N ELSE Top - 1

\* C1: for N >= 2 and -1 < rho < 1 the matrix returned by every level of
\* compute_P, and so the one rouwenhorst returns, is an N x N row-stochastic
\* matrix: each row sums to 1 (first and last rows, which are not halved, and
\* interior rows, which are) and every entry lies in [0, 1].
C1_RowStochastic ==
    (fn = "rouwenhorst" /\ pc \in {"ret", "done"} /\ P # NoMatrix
        /\ RhoInside(args.rho))
    => /\ Square(P, Level)
       /\ RowStochastic(P)
       /\ (pc = "done" => ret.kind = "return" /\ ret.P = P /\ Len(ret.P.num) = args.N)

\* a returned matrix with interior rows, for a persistence strictly inside (-1, 1)
C1_Witness ==
    /\ fn = "rouwenhorst" /\ pc = "done" /\ ret.kind = "return"
    /\ args.N >= 4
    /\ args.rho = <<1, 2>>
    /\ RowStochastic(ret.P)
    /\ ret.P.num[2][1] > 0 /\ ret.P.num[2][1] < ret.P.den

\* entry (i, j) of an m x m matrix, 0 outside it
Entry(Q, i, j) == IF i \in 1..Len(Q) /\ j \in 1..Len(Q) THEN Q[i][j] ELSE 0

\* P2 is the Rouwenhorst step of Q: entry by entry,
\* P2[i][j] = (p (Q[i][j] + Q[i-1][j-1]) + (1-p) (Q[i][j-1] + Q[i-1][j])) / h
\* with h = 2 on the interior rows and h = 1 on the first and the last row
StepOf(p, Qm, P2, n) ==
    /\ Square(Qm, n - 1)
    /\ Square(P2, n)
    /\ \A i \in 1..n : \A j \in 1..n :
          LET h == IF i \in 2..(n - 1) THEN 2 ELSE 1
              a == Entry(Qm.num, i, j) + Entry(Qm.num, i - 1, j - 1)
              b == Entry(Qm.num, i, j - 1) + Entry(Qm.num, i - 1, j)
          IN  P2.num[i][j] * (Qm.den * p[2] * h)
                  = (p[1] * a + (p[2] - p[1]) * b) * P2.den

\* P is the 2 x 2 matrix [[p, 1-p], [1-p, p]]
IsBase(p, M) ==
    /\ Square(M, 2)
    /\ RatEq(<<M.num[1][1], M.den>>, p) /\ RatEq(<<M.num[2][2], M.den>>, p)
    /\ RatEq(<<M.num[1][2], M.den>>, <<p[2] - p[1], p[2]>>)
    /\ RatEq(<<M.num[2][1], M.den>>, <<p[2] - p[1], p[2]>>)

\* C2: with p = (1+rho)/2, compute_P returns [[p, 1-p], [1-p, p]] for N = 2
\* without recursing (rho = 0.5 gives [[0.75, 0.25], [0.25, 0.75]]); every
\* frame with N > 2 returns p*A + (1-p)*B of the (N-1)-state matrix with the
\* interior rows halved; and the base case is reached after exactly N-2
\* recursive calls.
C2_Recursion ==
    /\ [](  (fn = "rouwenhorst" /\ pc \in {"ret", "done"} /\ P # NoMatrix)
            => /\ calls = args.N - 2
               /\ (Level = 2 => IsBase(pOf(args.rho), P))
               /\ (Level = 2 /\ args.rho = <<1, 2>>
                     => \A i \in 1..2 : \A j \in 1..2 :
                           RatEq(<<P.num[i][j], P.den>>,
                                 IF i = j THEN <<75, 100>> ELSE <<25, 100>>)) )
    /\ [][ (fn = "rouwenhorst" /\ pc = "ret" /\ stack # <<>> /\ stack' # stack)
            => StepOf(pOf(args.rho), P, P', Top) ]_vars

\* a three-level recursion has returned: base case, then two combining frames
C2_Witness ==
    /\ fn = "rouwenhorst" /\ pc = "done" /\ ret.kind = "return"
    /\ args.N = 4 /\ calls = 2
    /\ args.rho = <<1, 2>>
    /\ Square(ret.P, 4)

InvalidRouwenhorst == args.N < 2 \/ args.sigma < 0 \/ ~RhoInside(args.rho)

\* C3: rouwenhorst(N, mu, rho, sigma) fails with InvalidParameter and returns
\* no chain whenever N < 2, sigma < 0 or |rho| >= 1; for N < 2 it ends in that
\* error rather than recursing past the base case.
C3_RejectsInvalid ==
    (fn = "rouwenhorst" /\ pc = "done" /\ InvalidRouwenhorst)
    => ret.kind = "raise" /\ ret.exc = "InvalidParameter"

-----------------------------------------------------------------------------
(* The notebook's parameters *)

Alphas == {<<1, 2>>, <<1, 3>>, <<2, 3>>}

\* the param dictionary of the parametrization cell; alpha is drawn from Alphas
NotebookParam(alpha) ==
    [alpha |-> alpha, beta |-> <<24, 25>>, gamma |-> <<1, 1>>, phi |-> <<1, 1>>,
     mu |-> <<0, 1>>, rho |-> <<53, 100>>, sigma |-> <<37, 125>>,
     kMin |-> 0, kMax |-> 40, kNum |-> 100, lNum |-> 9, kappa |-> <<1, 5>>]

\* a call that runs in one step from its arguments a to its outcome r
Finish(f, a, r) ==
    /\ CanCall
    /\ fn' = f
    /\ args' = a
    /\ ret' = r
    /\ pc' = "done"
    /\ UNCHANGED <<stack, P, calls, eq>>

-----------------------------------------------------------------------------
(* factor_prices *)

Real(q) == [kind |-> "real", q |-> q]
NonReal(k) == [kind |-> k, q |-> <<0, 1>>]

RatMul(a, b) == <<a[1] * b[1], a[2] * b[2]>>

\* x ** e for a positive rational x = <<xn, xd>> whose parts are perfect
\* e[2]-th powers and a rational exponent e = <<en, ed>>
PowRat(x, e) ==
    LET a == IntRoot(x[1], e[2])
        b == IntRoot(x[2], e[2])
    IN  IF e[1] >= 0 THEN <<a ^ e[1], b ^ e[1]>>
        ELSE <<b ^ (0 - e[1]), a ^ (0 - e[1])>>

\* a slip in the exponent: a instead of a-1
RateOf_exponentA(x, a) == RatMul(a, PowRat(x, a))

\* r = a * (K/L) ** (a-1), for x = K/L > 0
RateOf(x, a) == RatMul(a, PowRat(x, <<a[1] - a[2], a[2]>>))

\* w = (1 - a) * (K/L) ** (a), for x = K/L > 0
WageOf(x, a) == RatMul(<<a[2] - a[1], a[2]>>, PowRat(x, a))

\* factor_prices(K, L, param).  num is the number type of K and L: Python
\* floats raise on a division by zero and on 0.0 to a negative power and give
\* a complex number for a negative base; numpy float64 values give inf or nan
\* with a warning.  Nothing is validated, nothing else is raised.
factor_prices(K, L, prm, num) ==
    LET a == prm.alpha
        x == <<Abs(K), Abs(L)>>
        val(r, w) == [kind |-> "return", r |-> r, w |-> w]
        exc(e) == [kind |-> "raise", exc |-> e]
    IN  IF L = 0 THEN
            IF num = "float" THEN exc("ZeroDivisionError")
            ELSE IF K = 0 THEN val(NonReal("nan"), NonReal("nan"))
            ELSE val(Real(<<0, 1>>), NonReal("inf"))
        ELSE IF K = 0 THEN
            IF num = "float" THEN exc("ZeroDivisionError")
            ELSE val(NonReal("inf"), Real(<<0, 1>>))
        ELSE IF Sign(K) # Sign(L) THEN
            IF num = "float" THEN val(NonReal("complex"), NonReal("complex"))
            ELSE val(NonReal("nan"), NonReal("nan"))
        ELSE val(Real(RateOf(x, a)), Real(WageOf(x, a)))

\* aggregate quantities whose K/L has exact roots for the exponent a
Quantities(a) == {s * (y ^ a[2]) : y \in 0..MaxRoot, s \in {0 - 1, 1}}

NumTypes == {"float", "float64"}

FactorPrices ==
    /\ CanCall
    /\ \E K \in Quantities(param.alpha), L \in Quantities(param.alpha),
          num \in NumTypes :
            Finish("factor_prices", [K |-> K, L |-> L, num |-> num],
                   factor_prices(K, L, param, num))
    /\ UNCHANGED param

-----------------------------------------------------------------------------
(* aggregate_kl and cash_in_hand *)

\* dist @ states for a vector dist and a matrix states with one row <<k, l>>
\* per grid point: the vector of the dist-weighted column sums
MatMul(dist, states) ==
    [c \in 1..2 |-> SumSeq([i \in 1..Len(dist) |-> dist[i] * states[i][c]])]

\* K = dist @ states; L = dist @ states; return K, L
aggregate_kl(states, dist, prm) ==
    [kind |-> "return", K |-> MatMul(dist, states), L |-> MatMul(dist, states)]

Vals == 0..MaxVal
Points == Vals \X Vals

RECURSIVE SeqsOf(_, _)
SeqsOf(S, n) ==
    IF n = 0 THEN {<<>>}
    ELSE {Append(q, x) : q \in SeqsOf(S, n - 1), x \in S}

\* distributions over n points: masses in units of 1/MaxVal that sum to 1
Dists(n) == {d \in SeqsOf(Vals, n) : SumSeq(d) = MaxVal}

AggregateKL ==
    /\ CanCall
    /\ \E n \in 1..MaxPts : \E states \in SeqsOf(Points, n), dist \in Dists(n) :
            Finish("aggregate_kl", [states |-> states, dist |-> dist],
                   aggregate_kl(states, dist, param))
    /\ UNCHANGED param

\* cash = w * l + (1 + r) * k
cash_in_hand(k, l, r, w) == w * l + (1 + r) * k

CashInHand ==
    /\ CanCall
    /\ \E k \in Vals, l \in Vals, r \in Vals, w \in Vals :
            Finish("cash_in_hand", [k |-> k, l |-> l, r |-> r, w |-> w],
                   [kind |-> "return", cash |-> cash_in_hand(k, l, r, w)])
    /\ UNCHANGED param

-----------------------------------------------------------------------------
(* solve_pfi, at the level of name binding: which names each statement reads,
   in evaluation order, which call it makes and which name it assigns *)

\* every name a cell of the notebook binds at module level
NotebookGlobals ==
    {"np", "la", "ip", "plt", "rouwenhorst", "factor_prices", "aggregate_kl",
     "cash_in_hand", "param", "kMin", "kMax", "kNum", "k", "lLog", "l", "kk",
     "ll", "solve_pfi"}

\* parameter lists of the notebook's functions
Signature ==
    [cash_in_hand |-> <<"k", "l", "r", "w">>,
     factor_prices |-> <<"K", "L", "param">>,
     aggregate_kl |-> <<"states", "dist", "param">>,
     rouwenhorst |-> <<"N", "mu", "rho", "sigma">>]

\* def solve_pfi(r, w, param, tol=1e-6)
SolvePfiParams == {"r", "w", "param", "tol"}

\* names local to solve_pfi: its parameters and every name its body assigns
SolvePfiLocals == SolvePfiParams \cup {"cash", "diff", "c0", "c1"}

Stmt(line, reads, callee, argv, target) ==
    [line |-> line, reads |-> reads, callee |-> callee, argv |-> argv,
     target |-> target]

\* cash = cash_in_hand(r, w, state)
S240 == Stmt(240, <<"cash_in_hand", "r", "w", "state">>, "cash_in_hand",
             <<"r", "w", "state">>, "cash")
\* diff = 1.0
S241 == Stmt(241, <<>>, "", <<>>, "diff")
\* while diff > tol:
S242 == Stmt(242, <<"diff", "tol">>, "", <<>>, "")
\* c0 = euler(cash, param)
S243 == Stmt(243, <<"euler", "cash", "param">>, "euler", <<"cash", "param">>, "c0")
\* diff = la.norm(c1 - c0)
S244 == Stmt(244, <<"la", "c1", "c0">>, "", <<>>, "diff")
\* c1 = param['kappa'] * cs + (1 - param['kappa']) * c0
S245 == Stmt(245, <<"param", "cs", "param", "c0">>, "", <<>>, "c1")

\* reading a name: a local must have been assigned, a global must be bound
Lookup(name, bound, env) ==
    IF name \in SolvePfiLocals
    THEN (IF name \in bound THEN "ok" ELSE "UnboundLocalError")
    ELSE (IF name \in env THEN "ok" ELSE "NameError")

RECURSIVE FirstFault(_, _, _)
FirstFault(reads, bound, env) ==
    IF reads = <<>> THEN [exc |-> "ok", name |-> ""]
    ELSE IF Lookup(Head(reads), bound, env) # "ok"
    THEN [exc |-> Lookup(Head(reads), bound, env), name |-> Head(reads)]
    ELSE FirstFault(Tail(reads), bound, env)

\* positional arguments bound to a notebook function's parameters
Bind(callee, argv) ==
    IF Len(argv) # Len(Signature[callee]) THEN [exc |-> "TypeError"]
    ELSE [exc |-> "ok",
          binding |-> [i \in 1..Len(argv) |-> <<Signature[callee][i], argv[i]>>]]

\* one statement: evaluate its names, make its call, assign its target
Exec(st, bound, env) ==
    LET f == FirstFault(st.reads, bound, env)
    IN  IF f.exc # "ok"
        THEN [exc |-> f.exc, name |-> f.name, line |-> st.line, bound |-> bound]
        ELSE IF st.callee \in DOMAIN Signature /\ Bind(st.callee, st.argv).exc # "ok"
        THEN [exc |-> "TypeError", name |-> st.callee, line |-> st.line,
              bound |-> bound]
        ELSE [exc |-> "ok", name |-> "", line |-> st.line,
              bound |-> IF st.target = "" THEN bound ELSE bound \cup {st.target}]

RECURSIVE RunSeq(_, _, _)
RunSeq(stmts, bound, env) ==
    IF stmts = <<>> THEN [exc |-> "ok", name |-> "", line |-> 0, bound |-> bound]
    ELSE LET one == Exec(Head(stmts), bound, env)
         IN  IF one.exc # "ok" THEN one ELSE RunSeq(Tail(stmts), one.bound, env)

\* The body of solve_pfi.  The first pass of the loop is entered because
\* diff = 1.0 > tol; exits says after how many completed passes the test
\* diff > tol fails.  The function has no return statement: leaving the loop
\* returns None.  The loop has no bound on the number of passes.
RECURSIVE PfiLoop(_, _, _, _)
PfiLoop(bound, env, passes, exits) ==
    LET pass == RunSeq(<<S242, S243, S244, S245>>, bound, env)
    IN  IF pass.exc # "ok"
        THEN [kind |-> "raise", exc |-> pass.exc, name |-> pass.name,
              line |-> pass.line, passes |-> passes, bound |-> pass.bound]
        ELSE IF passes + 1 >= exits
        THEN [kind |-> "return", exc |-> "", name |-> "", line |-> 245,
              passes |-> passes + 1, bound |-> pass.bound]
        ELSE PfiLoop(pass.bound, env, passes + 1, exits)

solve_pfi(env, exits) ==
    LET pre == RunSeq(<<S240, S241>>, SolvePfiParams, env)
    IN  IF pre.exc # "ok"
        THEN [kind |-> "raise", exc |-> pre.exc, name |-> pre.name,
              line |-> pre.line, passes |-> 0, bound |-> pre.bound]
        ELSE PfiLoop(pre.bound, env, 0, exits)

SolvePfi ==
    /\ CanCall
    /\ \E r \in Vals, w \in Vals, exits \in 1..2 :
            Finish("solve_pfi", [r |-> r, w |-> w, exits |-> exits],
                   solve_pfi(NotebookGlobals, exits))
    /\ UNCHANGED param

-----------------------------------------------------------------------------
(* The equilibrium iteration described in "Replicating the paper" *)

Kappa == param.kappa

\* K(j+1) = kappa K(j) + (1 - kappa) K*
Damp(K, Ks) == (Kappa[1] * K + (Kappa[2] - Kappa[1]) * Ks) \div Kappa[2]

KGrid == 0..MaxK

\* implied capital K* for which the next proposal stays on the integer grid
KStars(K) == {x \in KGrid : (Kappa[1] * K + (Kappa[2] - Kappa[1]) * x) % Kappa[2] = 0}

\* enter iteration j with a guess for aggregate capital
EqStart(K0) ==
    /\ CanCall
    /\ fn' = "equilibrium"
    /\ pc' = "loop"
    /\ args' = [K0 |-> K0]
    /\ eq' = [phase |-> "Proposing", K |-> K0, priced |-> 0 - 1, solved |-> 0 - 1,
              Kstar |-> 0 - 1]
    /\ UNCHANGED <<param, stack, P, calls, ret>>

\* 1. from the firm's FOC, compute prices r and w (for the current guess)
EqPrice ==
    /\ fn = "equilibrium" /\ pc = "loop" /\ eq.phase = "Proposing"
    /\ eq' = [eq EXCEPT !.phase = "Pricing", !.priced = eq.K]
    /\ UNCHANGED <<param, fn, pc, args, stack, P, calls, ret>>

\* 2. solve the households' problem (at those prices)
EqSolve ==
    /\ fn = "equilibrium" /\ pc = "loop" /\ eq.phase = "Pricing"
    /\ eq' = [eq EXCEPT !.phase = "SolvingHousehold", !.solved = eq.priced]
    /\ UNCHANGED <<param, fn, pc, args, stack, P, calls, ret>>

\* 3.-4. stationary distribution and implied aggregate capital K*
EqAggregate ==
    /\ fn = "equilibrium" /\ pc = "loop" /\ eq.phase = "SolvingHousehold"
    /\ \E Ks \in KStars(eq.K) : eq' = [eq EXCEPT !.phase = "Aggregating", !.Kstar = Ks]
    /\ UNCHANGED <<param, fn, pc, args, stack, P, calls, ret>>

\* 5. new proposal; |K(j+1) - K(j)| is close to zero: terminate the loop
EqConverge ==
    /\ fn = "equilibrium" /\ pc = "loop" /\ eq.phase = "Aggregating"
    /\ Abs(Damp(eq.K, eq.Kstar) - eq.K) < EqTol
    /\ eq' = [eq EXCEPT !.phase = "Converged", !.K = Damp(eq.K, eq.Kstar)]
    /\ ret' = [kind |-> "return", K |-> Damp(eq.K, eq.Kstar), from |-> eq.K]
    /\ pc' = "done"
    /\ UNCHANGED <<param, fn, args, stack, P, calls>>

\* 5. new proposal; otherwise enter iteration j+1
EqIterate ==
    /\ fn = "equilibrium" /\ pc = "loop" /\ eq.phase = "Aggregating"
    /\ ~(Abs(Damp(eq.K, eq.Kstar) - eq.K) < EqTol)
    /\ eq' = [eq EXCEPT !.phase = "Proposing", !.K = Damp(eq.K, eq.Kstar)]
    /\ UNCHANGED <<param, fn, pc, args, stack, P, calls, ret>>

EqNext ==
    \/ \E K0 \in KGrid : EqStart(K0)
    \/ EqPrice
    \/ EqSolve
    \/ EqAggregate
    \/ EqConverge
    \/ EqIterate

-----------------------------------------------------------------------------
(* Properties of factor_prices *)

FpDone == fn = "factor_prices" /\ pc = "done"

\* r > 0 and (r / a)^ad = (K / L)^(an - ad), i.e. r = a (K/L)^(a - 1)
IsRate(r, K, L, a) ==
    /\ r[1] > 0 /\ r[2] > 0
    /\ ((r[1] * a[2]) ^ a[2]) * (K ^ (a[2] - a[1]))
          = ((r[2] * a[1]) ^ a[2]) * (L ^ (a[2] - a[1]))

\* w > 0 and (w / (1 - a))^ad = (K / L)^an, i.e. w = (1 - a) (K/L)^a
IsWage(w, K, L, a) ==
    /\ w[1] > 0 /\ w[2] > 0
    /\ ((w[1] * a[2]) ^ a[2]) * (L ^ a[1])
          = ((w[2] * (a[2] - a[1])) ^ a[2]) * (K ^ a[1])

\* C4: for K > 0, L > 0, alpha in (0,1) factor_prices returns
\* r = alpha (K/L)^(alpha-1) and w = (1-alpha) (K/L)^alpha, whatever the number
\* type of K and L; for K = L that is r = alpha and w = 1 - alpha (r = w = 0.5
\* for alpha = 0.5, K = L = 1); and the call leaves param as it was.
C4_FactorPrices ==
    /\ []( (FpDone /\ args.K > 0 /\ args.L > 0)
            => /\ ret.kind = "return"
               /\ ret.r.kind = "real" /\ ret.w.kind = "real"
               /\ IsRate(ret.r.q, args.K, args.L, param.alpha)
               /\ IsWage(ret.w.q, args.K, args.L, param.alpha)
               /\ (args.K = args.L
                     => /\ RatEq(ret.r.q, param.alpha)
                        /\ RatEq(ret.w.q, <<param.alpha[2] - param.alpha[1],
                                            param.alpha[2]>>))
               /\ (args.K = 1 /\ args.L = 1 /\ param.alpha = <<1, 2>>
                     => RatEq(ret.r.q, <<5, 10>>) /\ RatEq(ret.w.q, <<5, 10>>)) )
    /\ [][fn' = "factor_prices" => param' = param]_vars

\* prices for K # L, both positive, with an exponent that is not one half
C4_Witness ==
    /\ FpDone /\ ret.kind = "return"
    /\ args.K > 1 /\ args.L = 1
    /\ param.alpha = <<1, 3>>
    /\ ret.r.kind = "real" /\ ~RatEq(ret.r.q, param.alpha)

\* C5: factor_prices fails with InvalidParameter, and returns no (r, w),
\* whenever K <= 0 or L <= 0.
C5_RejectsNonPositive ==
    (FpDone /\ (args.K <= 0 \/ args.L <= 0))
    => ret.kind = "raise" /\ ret.exc = "InvalidParameter"

-----------------------------------------------------------------------------
(* Properties of solve_pfi *)

PfiDone == fn = "solve_pfi" /\ pc = "done"

\* C6: solve_pfi always terminates, either because the norm of the change
\* fell to tol or below or, after a bounded number of passes, with a
\* NonConvergence error.
C6_ConvergesOrNonConvergence ==
    PfiDone => \/ ret.kind = "return"
               \/ ret.kind = "raise" /\ ret.exc = "NonConvergence"

\* C8: every pass damps c_new = kappa c_old + (1 - kappa) c_candidate with
\* c_old the guess held at the start of the pass, and every quantity a pass
\* reads (initial guess, previous guess, candidate) was assigned before.
C8_DampedUpdateReadsAssigned ==
    PfiDone => /\ ret.exc \notin {"NameError", "UnboundLocalError"}
               /\ ret.passes >= 1
               /\ {"c0", "c1"} \subseteq ret.bound

\* C9: the cash-in-hand solve_pfi obtains from its call is
\* cash_in_hand(k, l, r, w) = w l + (1 + r) k with the interest rate bound to
\* r, the wage to w, and capital and labor (not prices) to k and l.
C9_CashFromCall ==
    PfiDone =>
        LET b == Bind(S240.callee, S240.argv)
        IN  /\ "cash" \in ret.bound
            /\ b.exc = "ok"
            /\ b.binding[3] = <<"r", "r">> /\ b.binding[4] = <<"w", "w">>
            /\ b.binding[1][2] \notin {"r", "w"}
            /\ b.binding[2][2] \notin {"r", "w"}

-----------------------------------------------------------------------------
(* Properties of aggregate_kl *)

\* the dist-weighted sum of column c of the grid
Weighted(states, dist, c) ==
    SumSeq([i \in 1..Len(dist) |-> dist[i] * states[i][c]])

\* C10: aggregate_kl returns K, the distribution-weighted sum of capital, and
\* L, the distribution-weighted sum of labor; when capital and labor differ on
\* a point of positive mass the two returned values differ.
C10_AggregatesCapitalAndLabor ==
    (fn = "aggregate_kl" /\ pc = "done")
    => /\ ret.K = <<Weighted(args.states, args.dist, 1)>>
       /\ ret.L = <<Weighted(args.states, args.dist, 2)>>
       /\ ((\E i \in 1..Len(args.dist) :
               args.dist[i] > 0 /\ args.states[i][1] # args.states[i][2])
            => ret.K # ret.L)

-----------------------------------------------------------------------------
(* Properties of the equilibrium iteration *)

\* C7: each iteration prices from K(j), solves the household problem,
\* aggregates K* and updates K(j+1), in that order; the loop exits only in
\* Converged, entered only when |K(j+1) - K(j)| < tol; past the configured
\* maximum of iterations it ends in NonConvergence; so every run eventually
\* ends in Converged or in NonConvergence.
C7_EndsConvergedOrNonConvergence ==
    <>(fn = "equilibrium" /\ eq.phase \in {"Converged", "NonConvergence"})

-----------------------------------------------------------------------------
(* Specifications *)

Init ==
    /\ param \in {NotebookParam(a) : a \in Alphas}
    /\ fn = "none"
    /\ pc = "idle"
    /\ args = <<>>
    /\ stack = <<>>
    /\ P = NoMatrix
    /\ calls = 0
    /\ ret = NoRet
    /\ eq = NoEq

Helpers ==
    \/ FactorPrices
    \/ AggregateKL
    \/ CashInHand
    \/ SolvePfi

Next == Rouwenhorst \/ Helpers \/ EqNext

Spec == Init /\ [][Next]_vars

\* the equilibrium iteration alone; a loop that can take a step takes it
EqSpec == Init /\ [][EqNext]_vars /\ WF_vars(EqNext)

=============================================================================
